---------------------------- MODULE Spec2Model ----------------------------
(***************************************************************************)
(* Per-file architecture metrics of the Microservices-Quality-Score-Model  *)
(* repository: cid_for_file, cmod_for_file, scf_for_file, analyze_file     *)
(* (SMAD) and depths_for_file / main (DCCMD), each a batch script that     *)
(* reads one decomposition document and produces one result row.           *)
(*                                                                         *)
(* A JSON document is modelled by its shape: every level carries a `kind`  *)
(* saying whether the value is absent, of the wrong type, or the expected  *)
(* one.  Python's None is the string NONE, a missing/null link endpoint is *)
(* NULL.  Floats are modelled as exact rationals [num, den].               *)
(***************************************************************************)
EXTENDS Integers, Sequences, FiniteSets, TLC

VARIABLES doc, script, row

vars == <<doc, script, row>>

(***************************************************************************)
(* Bounds of the model.                                                    *)
(***************************************************************************)
MaxLinks == 2
MaxGraphLinks == 3
MaxWeightedLinks == 2
MaxBusLinks == 2
MaxSize == 3

(***************************************************************************)
(* Python values.                                                          *)
(***************************************************************************)
NONE == "<None>"
NULL == "<null>"

Truthy(s) == s # NONE /\ s # ""

Max(a, b) == IF a >= b THEN a ELSE b

Abs(x) == IF x < 0 THEN -x ELSE x

RECURSIVE Gcd(_, _)
Gcd(a, b) == IF b = 0 THEN a ELSE Gcd(b, a % b)

\* An exact rational in lowest terms, den > 0; stands for a Python float.
Rat(n, d) ==
    LET g == Gcd(Abs(n), d)
    IN  [num |-> n \div g, den |-> d \div g]

RatAdd(x, y) == Rat(x.num * y.den + y.num * x.den, x.den * y.den)

RatLeq(x, y) == x.num * y.den <= y.num * x.den

(***************************************************************************)
(* Documents.                                                              *)
(***************************************************************************)
NoWeight == [kind |-> "absent", val |-> 0]
Weight(n) == [kind |-> "num", val |-> n]
BadWeight == [kind |-> "bad", val |-> 0]

Link(s, t, w) == [source |-> s, target |-> t, weight |-> w]

Node(i) == [has_id |-> TRUE, id |-> i]
NodeNoId == [has_id |-> FALSE, id |-> NULL]

NodeList(ns) == [kind |-> "list", nodes |-> ns]
NotAList == [kind |-> "notlist", nodes |-> <<>>]

EmptyParts == [k \in {} |-> NodeList(<<>>)]

DecompMap(parts) == [kind |-> "map", parts |-> parts]
DecompAbsent == [kind |-> "absent", parts |-> EmptyParts]
DecompNotMap == [kind |-> "notmap", parts |-> EmptyParts]

Layer(decomp, links) == [kind |-> "obj", decomposition |-> decomp, links |-> links]
LayerAbsent == [kind |-> "absent", decomposition |-> DecompAbsent, links |-> <<>>]
LayerNotObj == [kind |-> "notobj", decomposition |-> DecompAbsent, links |-> <<>>]

\* A business link's source: a story label, as its characters.
Label(cs) == [is_str |-> TRUE, chars |-> cs]
NotAString == [is_str |-> FALSE, chars |-> <<>>]

BusLink(s, t) == [source |-> s, target |-> t]

BusLayer(links) == [kind |-> "obj", links |-> links]
BusAbsent == [kind |-> "absent", links |-> <<>>]
BusNotObj == [kind |-> "notobj", links |-> <<>>]

Document(l1, l3) == [text |-> "ok", top |-> "object", L1 |-> l1, L3 |-> l3]

(***************************************************************************)
(* Results of a per-file function: a value, None, or a raised exception.   *)
(***************************************************************************)
Raise(exc) == [status |-> "raise", exc |-> exc]
NotAvailable == [status |-> "NA"]

\* json.loads(jpath.read_text()); layer = data[KEY], and which exception it
\* raises: "" when the layer is read.
LoadLayer(d, layer) ==
    IF d.text = "badencoding" THEN "UnicodeDecodeError"
    ELSE IF d.text = "badjson" THEN "JSONDecodeError"
    ELSE IF d.top = "array" THEN "TypeError"
    ELSE IF layer.kind = "absent" THEN "KeyError"
    ELSE ""

\* layer.get("decomposition", {})
GetDecomp(layer) ==
    IF layer.decomposition.kind = "absent" THEN DecompMap(EmptyParts)
    ELSE layer.decomposition

\* {n["id"]: p for p, lst in decomp.items() for n in lst}: the exception the
\* comprehension raises, "" when it builds the map.
NodeMapError(decomp) ==
    IF decomp.kind # "map" THEN "AttributeError"
    ELSE IF \E p \in DOMAIN decomp.parts : decomp.parts[p].kind # "list"
         THEN "TypeError"
    ELSE IF \E p \in DOMAIN decomp.parts :
              \E i \in DOMAIN decomp.parts[p].nodes : ~decomp.parts[p].nodes[i].has_id
         THEN "KeyError"
    ELSE ""

\* node2part.get(x) for the map built from decomp: the partition listing a
\* node with that id, None when there is none.  Documents list a node under
\* one partition.
Node2Part(decomp, x) ==
    LET owners == {p \in DOMAIN decomp.parts :
                     \E i \in DOMAIN decomp.parts[p].nodes :
                        /\ decomp.parts[p].nodes[i].has_id
                        /\ decomp.parts[p].nodes[i].id = x}
    IN  IF owners = {} THEN NONE ELSE CHOOSE p \in owners : TRUE

\* The exceptions a function's try block catches turn into None; any other
\* exception leaves the function.
Failed(err, caught) == IF err \in caught THEN NotAvailable ELSE Raise(err)

RECURSIVE SumSeq(_)
SumSeq(s) == IF s = <<>> THEN 0 ELSE Head(s) + SumSeq(Tail(s))

(***************************************************************************)
(* cyclic_independence.py                                                  *)
(***************************************************************************)
\* Lines 74-78: the link is kept (not skipped by `continue`).
CidCross(decomp, e) ==
    LET p_src == Node2Part(decomp, e.source)
        p_dst == Node2Part(decomp, e.target)
    IN  ~(p_src = NONE \/ p_dst = NONE \/ p_src = p_dst)

\* dep_out[p] after the loop over links.
DepOut(decomp, links, p) ==
    {Node2Part(decomp, links[i].target) :
        i \in {j \in DOMAIN links :
                 /\ CidCross(decomp, links[j])
                 /\ Node2Part(decomp, links[j].source) = p}}

\* CyclicPairs with `or` for `and`: a dependency in one direction is enough.
CyclicPairsEitherWay(decomp, links) ==
    LET parts == DOMAIN decomp.parts
    IN  Cardinality({pq \in SUBSET parts :
            /\ Cardinality(pq) = 2
            /\ \E p \in pq : \E q \in pq \ {p} : q \in DepOut(decomp, links, p)})

\* sum(1 for p, q in combinations(parts, 2) if q in dep_out[p] and p in dep_out[q])
CyclicPairs(decomp, links) ==
    LET parts == DOMAIN decomp.parts
    IN  Cardinality({pq \in SUBSET parts :
            /\ Cardinality(pq) = 2
            /\ \A p \in pq : \A q \in pq \ {p} : q \in DepOut(decomp, links, p)})

CidForFile(d) ==
    LET err    == LoadLayer(d, d.L1)
        layer  == d.L1
        decomp == GetDecomp(layer)
        n      == Cardinality(DOMAIN decomp.parts)
        total_pairs == (n * (n - 1)) \div 2
        cyclic == CyclicPairs(decomp, layer.links)
    IN  IF err # "" THEN Failed(err, {"JSONDecodeError", "KeyError"})
        ELSE IF layer.kind # "obj" THEN Raise("AttributeError")
        ELSE IF decomp.kind # "map" THEN Raise("AttributeError")
        ELSE IF n <= 1
             THEN [status |-> "ok", partitions |-> n, cyclic_pairs |-> 0,
                   total_pairs |-> total_pairs, CiD |-> Rat(1, 1)]
        ELSE IF NodeMapError(decomp) # "" THEN Raise(NodeMapError(decomp))
        ELSE [status |-> "ok", partitions |-> n, cyclic_pairs |-> cyclic,
              total_pairs |-> total_pairs,
              CiD |-> IF total_pairs > 0
                      THEN Rat(total_pairs - cyclic, total_pairs)
                      ELSE Rat(1, 1)]

(***************************************************************************)
(* code_modularity.py                                                      *)
(***************************************************************************)
\* Lines 54-61: both endpoints are present and map to a partition.
CmodKnown(decomp, e) ==
    /\ e.source # NULL
    /\ e.target # NULL
    /\ Node2Part(decomp, e.source) # NONE
    /\ Node2Part(decomp, e.target) # NONE

\* Lines 63-67: the link adds to outgoing/incoming rather than to internal.
CmodCross(decomp, e) ==
    /\ CmodKnown(decomp, e)
    /\ Node2Part(decomp, e.source) # Node2Part(decomp, e.target)

\* float(e.get("weight", 1.0))
LinkWeight(e) == IF e.weight.kind = "absent" THEN 1 ELSE e.weight.val

\* internal[p]
Internal(decomp, links, p) ==
    Cardinality({i \in DOMAIN links :
                    /\ CmodKnown(decomp, links[i])
                    /\ ~CmodCross(decomp, links[i])
                    /\ Node2Part(decomp, links[i].source) = p})

\* outgoing[p]
Outgoing(decomp, links, p) ==
    SumSeq([i \in DOMAIN links |->
              IF CmodCross(decomp, links[i]) /\ Node2Part(decomp, links[i].source) = p
              THEN LinkWeight(links[i]) ELSE 0])

\* incoming[p]
Incoming(decomp, links, p) ==
    SumSeq([i \in DOMAIN links |->
              IF CmodCross(decomp, links[i]) /\ Node2Part(decomp, links[i].target) = p
              THEN LinkWeight(links[i]) ELSE 0])

\* Lines 75-76: cf = None, the partition is left out of cf_vals.
CfIgnored(intra, ext_w) == ext_w = 0 /\ intra = 0

\* Lines 77-80.
ClusterFactor(intra, ext_w) ==
    IF ext_w = 0 THEN Rat(1, 1) ELSE Rat(2 * intra, 2 * intra + ext_w)

RECURSIVE SumCf(_, _, _)
SumCf(decomp, links, ps) ==
    IF ps = {} THEN Rat(0, 1)
    ELSE LET p == CHOOSE x \in ps : TRUE
         IN  RatAdd(ClusterFactor(Internal(decomp, links, p),
                                  Outgoing(decomp, links, p) + Incoming(decomp, links, p)),
                    SumCf(decomp, links, ps \ {p}))

CmodForFile(d) ==
    LET err    == LoadLayer(d, d.L1)
        layer  == d.L1
        decomp == GetDecomp(layer)
        links  == layer.links
        kept   == {p \in DOMAIN decomp.parts :
                      ~CfIgnored(Internal(decomp, links, p),
                                 Outgoing(decomp, links, p) + Incoming(decomp, links, p))}
        total  == SumCf(decomp, links, kept)
    IN  IF err # "" THEN Failed(err, {"JSONDecodeError", "KeyError", "TypeError"})
        ELSE IF layer.kind # "obj" THEN Raise("AttributeError")
        ELSE IF NodeMapError(decomp) # "" THEN Raise(NodeMapError(decomp))
        ELSE IF \E i \in DOMAIN links :
                   CmodKnown(decomp, links[i]) /\ links[i].weight.kind = "bad"
             THEN Raise("ValueError")
        ELSE IF kept = {} THEN NotAvailable
        ELSE [status |-> "ok",
              CMod |-> Rat(total.num, total.den * Cardinality(kept))]

(***************************************************************************)
(* service_coupling_factor.py                                              *)
(***************************************************************************)
\* ScfCross without the test of the target's service.
ScfCrossAnyTarget(decomp, e) ==
    LET s_src == Node2Part(decomp, e.source)
        s_dst == Node2Part(decomp, e.target)
    IN  Truthy(s_src) /\ s_src # s_dst

\* Line 55: if s_src and s_dst and s_src != s_dst
ScfCross(decomp, e) ==
    LET s_src == Node2Part(decomp, e.source)
        s_dst == Node2Part(decomp, e.target)
    IN  Truthy(s_src) /\ Truthy(s_dst) /\ s_src # s_dst

\* ExtEdges counting each (source, target) pair once.
ExtEdgesDistinct(decomp, links) ==
    Cardinality({<<links[i].source, links[i].target>> :
                    i \in {j \in DOMAIN links : ScfCross(decomp, links[j])}})

\* ext_edges after the loop over links.
ExtEdges(decomp, links) ==
    SumSeq([i \in DOMAIN links |-> IF ScfCross(decomp, links[i]) THEN 1 ELSE 0])

\* The largest r in lo..hi with r * r <= q.
RECURSIVE ISqrt(_, _, _)
ISqrt(q, lo, hi) ==
    IF lo = hi THEN lo
    ELSE LET mid == (lo + hi + 1) \div 2
         IN  IF mid * mid <= q THEN ISqrt(q, mid, hi) ELSE ISqrt(q, lo, mid - 1)

\* The docstring's external_edge_count / denom in place of the square root.
EdgeRatio4(svc_count, denom) ==
    (20000 * (denom - svc_count) + denom) \div (2 * denom)

\* f"{math.sqrt(svc_count / denom):.4f}" as the number of ten-thousandths:
\* the k nearest to 10^4 * sqrt(svc_count / denom), which is the k with
\* (2k-1)^2 <= 4 * 10^8 * svc_count / denom < (2k+1)^2.
SqrtRatio4(svc_count, denom) ==
    (ISqrt((400000000 * svc_count) \div denom, 0, 20000) + 1) \div 2

ScfForFile(d) ==
    LET err    == LoadLayer(d, d.L1)
        block  == d.L1
        decomp == GetDecomp(block)
        svc_count == Cardinality(DOMAIN decomp.parts)
        ext_edges == ExtEdges(decomp, block.links)
        denom  == ext_edges + svc_count
    IN  IF err # "" THEN Failed(err, {"JSONDecodeError", "KeyError", "TypeError"})
        ELSE IF block.kind # "obj" THEN Raise("AttributeError")
        ELSE IF NodeMapError(decomp) # "" THEN Raise(NodeMapError(decomp))
        ELSE [status |-> "ok", services |-> svc_count, external_edges |-> ext_edges,
              SCF |-> IF denom = 0 THEN 0 ELSE SqrtRatio4(svc_count, denom)]

(***************************************************************************)
(* statistics.median, used by smad.py and dccmd.py                         *)
(***************************************************************************)
\* sorted(data), data a sequence of rationals.
RECURSIVE Sorted(_)
Sorted(s) ==
    IF s = <<>> THEN <<>>
    ELSE LET i == CHOOSE j \in DOMAIN s : \A k \in DOMAIN s : RatLeq(s[j], s[k])
             rest == [k \in 1..(Len(s) - 1) |-> IF k < i THEN s[k] ELSE s[k + 1]]
         IN  <<s[i]>> \o Sorted(rest)

\* Median taking the upper of the two middle values of an even-length list.
MedianUpper(s) ==
    LET data == Sorted(s)
    IN  data[Len(data) \div 2 + 1]

\* The middle value, or the mean of the two middle values.
Median(s) ==
    LET data == Sorted(s)
        n    == Len(data)
    IN  IF n % 2 = 1 THEN data[(n + 1) \div 2]
        ELSE LET lo == data[n \div 2]
                 hi == data[n \div 2 + 1]
                 sum == RatAdd(lo, hi)
             IN  Rat(sum.num, 2 * sum.den)

\* median(abs(x - med) for x in data)
MadRaw(s) ==
    LET med == Median(s)
    IN  Median([i \in DOMAIN s |->
                  Rat(Abs(s[i].num * med.den - med.num * s[i].den), s[i].den * med.den)])

\* The complement of the score: mad / (mad + k).
DispersionComplement(mad, k) == Rat(mad.num, mad.num + k * mad.den)

\* 1 - mad / (mad + k)
Dispersion(mad, k) == Rat(mad.num + k * mad.den - mad.num, mad.num + k * mad.den)

\* The values of f over the keys ks, as a sequence (dict order).
RECURSIVE ValuesOf(_, _)
ValuesOf(f, ks) ==
    IF ks = {} THEN <<>>
    ELSE LET k == CHOOSE x \in ks : TRUE
         IN  <<f[k]>> \o ValuesOf(f, ks \ {k})

(***************************************************************************)
(* smad.py                                                                 *)
(***************************************************************************)
SMAD_K == 7

AnalyzeFile(d) ==
    LET err    == LoadLayer(d, d.L1)
        layer  == d.L1
        decomp == GetDecomp(layer)
        sizes  == ValuesOf([p \in DOMAIN decomp.parts |->
                              Rat(Len(decomp.parts[p].nodes), 1)],
                           DOMAIN decomp.parts)
        mad_raw == MadRaw(sizes)
    IN  IF err # "" THEN Failed(err, {"JSONDecodeError", "KeyError", "TypeError"})
        ELSE IF layer.kind # "obj" THEN Raise("AttributeError")
        ELSE IF decomp.kind # "map" THEN NotAvailable
        ELSE IF \E p \in DOMAIN decomp.parts : decomp.parts[p].kind # "list"
             THEN Failed("TypeError", {"JSONDecodeError", "KeyError", "TypeError"})
        ELSE IF sizes = <<>> THEN NotAvailable
        ELSE [status |-> "ok", services |-> Len(sizes), MAD_raw |-> mad_raw,
              medSize |-> Median(sizes), SMAD |-> Dispersion(mad_raw, SMAD_K)]

(***************************************************************************)
(* dccmd.py                                                                *)
(***************************************************************************)
DCCMD_K == 2

\* The number of nested dfs calls the interpreter allows before it raises
\* RecursionError (sys.getrecursionlimit() frames, 1000 by default), scaled
\* down to the size of the graphs explored here.
RecursionLimit == 3

LowerCase == <<"a", "c", "e", "g", "i", "l", "n", "o", "s", "u">>
UpperCase == <<"A", "C", "E", "G", "I", "L", "N", "O", "S", "U">>

\* str.upper(), character by character.
Upper(cs) ==
    [i \in DOMAIN cs |->
        IF \E j \in DOMAIN LowerCase : LowerCase[j] = cs[i]
        THEN UpperCase[CHOOSE j \in DOMAIN LowerCase : LowerCase[j] = cs[i]]
        ELSE cs[i]]

\* needle in hay
Contains(hay, needle) ==
    \E i \in 0..(Len(hay) - Len(needle)) :
        \A j \in DOMAIN needle : hay[i + j] = needle[j]

Marker == <<"U", "S", "E", " ", "C", "A", "S", "E">>

\* isinstance(story, str) and "USE CASE" in story.upper()
IsUseCase(story) == story.is_str /\ Contains(Upper(story.chars), Marker)

\* Line 67: if s_src and s_dst and s_src != s_dst
DccmdCross(decomp, e) ==
    LET s_src == Node2Part(decomp, e.source)
        s_dst == Node2Part(decomp, e.target)
    IN  Truthy(s_src) /\ Truthy(s_dst) /\ s_src # s_dst

\* adj after the loop over the structural links.
Adj(decomp, links) ==
    [s \in DOMAIN decomp.parts |->
        {Node2Part(decomp, links[i].target) :
            i \in {j \in DOMAIN links :
                     /\ DccmdCross(decomp, links[j])
                     /\ Node2Part(decomp, links[j].source) = s}}]

\* story2svcs after the loop over the business links.
Story2Svcs(decomp, buslinks) ==
    LET hits == {i \in DOMAIN buslinks :
                    /\ IsUseCase(buslinks[i].source)
                    /\ Truthy(Node2Part(decomp, buslinks[i].target))}
    IN  [story \in {buslinks[i].source : i \in hits} |->
            {Node2Part(decomp, buslinks[i].target) :
                i \in {j \in hits : buslinks[j].source = story}}]

EmptyCache == [k \in {} |-> 0]

\* dfs(node, seen) under lru_cache: the value and the cache after the call, or
\* raised when the call would nest deeper than the interpreter allows.  The
\* call dfs(node, seen) is nested Cardinality(seen) deep: the root has
\* seen = {start} and each recursive call passes seen | {nxt}.
RECURSIVE Dfs(_, _, _, _)
RECURSIVE DfsLoop(_, _, _, _, _, _)
Dfs(adj, node, seen, cache) ==
    IF Cardinality(seen) > RecursionLimit
    THEN [best |-> 0, cache |-> cache, raised |-> TRUE]
    ELSE IF <<node, seen>> \in DOMAIN cache
    THEN [best |-> cache[<<node, seen>>], cache |-> cache, raised |-> FALSE]
    ELSE LET r == DfsLoop(adj, node, seen, adj[node], 0, cache)
         IN  IF r.raised THEN r
             ELSE [best |-> r.best, cache |-> (<<node, seen>> :> r.best) @@ r.cache,
                   raised |-> FALSE]

\* The for loop of dfs over the neighbours still to visit.
DfsLoop(adj, node, seen, todo, best, cache) ==
    IF todo = {} THEN [best |-> best, cache |-> cache, raised |-> FALSE]
    ELSE LET nxt == CHOOSE x \in todo : TRUE
         IN  IF nxt \notin seen
             THEN LET r == Dfs(adj, nxt, seen \cup {nxt}, cache)
                  IN  IF r.raised THEN r
                      ELSE DfsLoop(adj, node, seen, todo \ {nxt},
                                   Max(best, 1 + r.best), r.cache)
             ELSE DfsLoop(adj, node, seen, todo \ {nxt}, best, cache)

LongestPath(start, adj) == Dfs(adj, start, {start}, EmptyCache).best

\* longest_path(start, adj) ends in a RecursionError.
Overflows(start, adj) == Dfs(adj, start, {start}, EmptyCache).raised

\* Lines 85-88: best over the services a story touches.
RECURSIVE StoryDepth(_, _)
StoryDepth(svcs, adj) ==
    IF svcs = {} THEN 0
    ELSE LET s == CHOOSE x \in svcs : TRUE
         IN  Max(LongestPath(s, adj), StoryDepth(svcs \ {s}, adj))

DepthsForFile(d) ==
    LET err    == IF LoadLayer(d, d.L1) # "" THEN LoadLayer(d, d.L1)
                  ELSE LoadLayer(d, d.L3)
        struct == d.L1
        bus    == d.L3
        decomp == struct.decomposition
        svc_cnt == Cardinality(DOMAIN decomp.parts)
        adj    == Adj(decomp, struct.links)
        story2svcs == Story2Svcs(decomp, bus.links)
    IN  IF err # ""
        THEN IF err \in {"JSONDecodeError", "KeyError"}
             THEN [status |-> "NA", has_cnt |-> FALSE, svc_cnt |-> 0]
             ELSE Raise(err)
        ELSE IF struct.kind # "obj" THEN Raise("TypeError")
        ELSE IF decomp.kind = "absent" THEN Raise("KeyError")
        ELSE IF NodeMapError(decomp) # "" THEN Raise(NodeMapError(decomp))
        ELSE IF bus.kind # "obj" THEN Raise("AttributeError")
        ELSE IF DOMAIN story2svcs = {}
             THEN [status |-> "NA", has_cnt |-> TRUE, svc_cnt |-> svc_cnt]
        ELSE IF \E st \in DOMAIN story2svcs :
                   \E s \in story2svcs[st] : Overflows(s, adj)
             THEN Raise("RecursionError")
        ELSE [status |-> "ok", has_cnt |-> TRUE, svc_cnt |-> svc_cnt,
              depths |-> ValuesOf([st \in DOMAIN story2svcs |->
                                      StoryDepth(story2svcs[st], adj)],
                                  DOMAIN story2svcs)]

\* One pass of main's loop: the row appended for the file.
DccmdRow(d) ==
    LET ret == DepthsForFile(d)
        depths == [i \in DOMAIN ret.depths |-> Rat(ret.depths[i], 1)]
        mad_raw == MadRaw(depths)
    IN  IF ret.status = "raise" THEN ret
        ELSE IF ret.status = "NA"
             THEN [status |-> "NA", ret |-> ret,
                   svc_shown |-> ret.has_cnt /\ ret.svc_cnt # 0, svc |-> ret.svc_cnt]
        ELSE [status |-> "ok", ret |-> ret, stories |-> Len(depths),
              svc_shown |-> TRUE, svc |-> ret.svc_cnt, medDepth |-> Median(depths),
              MADraw |-> mad_raw, DCCMD |-> Dispersion(mad_raw, DCCMD_K)]

(***************************************************************************)
(* The documents the scripts are run on.                                   *)
(***************************************************************************)
SeqsUpTo(K, n) == UNION {[1..m -> K] : m \in 0..n}

UC1   == Label(<<"U", "s", "e", " ", "C", "a", "s", "e", " ", "1">>)
uc2   == Label(<<"u", "s", "e", " ", "c", "a", "s", "e", " ", "2">>)
Login == Label(<<"L", "o", "g", "i", "n">>)

\* Partition keys; the empty string is a legal JSON key.
PartKeys == {"", "A", "B"}

\* Nodes a and b spread over any partitions (or listed nowhere), links between
\* a and b or with a missing endpoint, no weights.
MemberDocs ==
    {Document(
        Layer(DecompMap([k \in keys |->
                 NodeList(SelectSeq(<<Node("a"), Node("b")>>,
                                    LAMBDA x : asg[x.id] = k))]),
              links),
        BusLayer(<<BusLink(UC1, "a"), BusLink(uc2, "b")>>)) :
      keys \in SUBSET PartKeys,
      asg \in [{"a", "b"} -> PartKeys \cup {NONE}],
      links \in SeqsUpTo({Link(st[1], st[2], NoWeight) :
                            st \in ({"a", "b"} \X {"a", "b"})
                                     \cup {<<NULL, "a">>, <<"b", NULL>>}}, MaxLinks)}

ThreeParts ==
    DecompMap([k \in {"A", "B", "C"} |->
                 NodeList(<<Node(CASE k = "A" -> "a" [] k = "B" -> "b" [] OTHER -> "c")>>)])

\* Three one-node services and any dependency graph between them.
GraphDocs ==
    {Document(Layer(ThreeParts, links),
              BusLayer(<<BusLink(UC1, "a"), BusLink(uc2, "c"),
                         BusLink(UC1, "b"), BusLink(Login, "a")>>)) :
      links \in SeqsUpTo({Link(st[1], st[2], NoWeight) :
                            st \in {x \in {"a", "b", "c"} \X {"a", "b", "c"} :
                                       x[1] # x[2]}}, MaxGraphLinks)}

\* Weighted links in and between a two-node and a one-node partition.
WeightedDocs ==
    {Document(
        Layer(DecompMap([k \in {"A", "B"} |->
                 IF k = "A" THEN NodeList(<<Node("a"), Node("b")>>)
                 ELSE NodeList(<<Node("c")>>)]),
              links),
        BusAbsent) :
      links \in SeqsUpTo({Link(st[1], st[2], w) :
                            st \in {<<"a", "b">>, <<"b", "b">>, <<"a", "c">>, <<"c", "b">>},
                            w \in {NoWeight, Weight(0), Weight(2)}}, MaxWeightedLinks)}

\* The chain A -> B -> C and any business links.
StoryDocs ==
    {Document(Layer(ThreeParts, <<Link("a", "b", NoWeight), Link("b", "c", NoWeight)>>),
              BusLayer(bl)) :
      bl \in SeqsUpTo({BusLink(l, t) : l \in {UC1, uc2, Login, NotAString},
                                        t \in {"a", "c", "x"}}, MaxBusLinks)}

NodeNames ==
    [k \in {"A", "B", "C", "D"} |->
        CASE k = "A" -> <<"a1", "a2", "a3", "a4", "a5">>
          [] k = "B" -> <<"b1", "b2", "b3", "b4", "b5">>
          [] k = "C" -> <<"c1", "c2", "c3", "c4", "c5">>
          [] OTHER   -> <<"d1", "d2", "d3", "d4", "d5">>]

\* Up to four partitions of any sizes, no links.
SizeDocs ==
    {Document(
        Layer(DecompMap([k \in DOMAIN sz |->
                 NodeList([i \in 1..sz[k] |-> Node(NodeNames[k][i])])]), <<>>),
        BusAbsent) :
      sz \in UNION {[ks -> 0..MaxSize] : ks \in SUBSET {"A", "B", "C", "D"}}}

ChainKeys  == <<"A", "B", "C", "D", "E", "F">>
ChainNodes == <<"a", "b", "c", "d", "e", "f">>

\* One more one-node service than dfs calls may nest, on a ring of
\* dependencies of which any links are present; stories start at a and at b.
DeepDocs ==
    LET n    == RecursionLimit + 1
        ring == [i \in 1..n |-> Link(ChainNodes[i], ChainNodes[(i % n) + 1], NoWeight)]
    IN  {Document(
            Layer(DecompMap([k \in {ChainKeys[i] : i \in 1..n} |->
                     NodeList(<<Node(ChainNodes[CHOOSE i \in 1..n : ChainKeys[i] = k])>>)]),
                  SelectSeq(ring, LAMBDA e : e \in kept)),
            BusLayer(<<BusLink(UC1, "a"), BusLink(uc2, "b")>>)) :
          kept \in SUBSET {ring[i] : i \in 1..n}}

\* Documents that are unreadable, of the wrong shape, or lack a layer or field.
MalformedDocs ==
    {[text |-> text, top |-> top, L1 |-> l1, L3 |-> l3] :
      text \in {"ok", "badjson", "badencoding"},
      top \in {"object", "array"},
      l1 \in {LayerAbsent, LayerNotObj}
            \cup {Layer(decomp, links) :
                    decomp \in {DecompAbsent, DecompNotMap}
                       \cup {DecompMap([k \in {"A", "B"} |->
                                IF k = "A" THEN a ELSE NodeList(<<Node("b")>>)]) :
                               a \in {NodeList(<<Node("a")>>), NotAList,
                                      NodeList(<<NodeNoId>>)}}
                       \cup {DecompMap([k \in {"A"} |-> NodeList(<<NodeNoId>>)])},
                    links \in {<<>>, <<Link("a", "b", NoWeight)>>,
                               <<Link("a", "b", BadWeight)>>}},
      l3 \in {BusAbsent, BusNotObj, BusLayer(<<BusLink(UC1, "a")>>)}}

Init ==
    /\ doc \in MemberDocs \cup GraphDocs \cup WeightedDocs \cup StoryDocs
                \cup SizeDocs \cup DeepDocs \cup MalformedDocs
    /\ script = "none"
    /\ row = [status |-> "none"]

(***************************************************************************)
(* One pass of a script's batch loop over the document.                    *)
(***************************************************************************)
RunCid ==
    /\ script = "none"
    /\ script' = "cid"
    /\ row' = CidForFile(doc)
    /\ UNCHANGED doc

RunCmod ==
    /\ script = "none"
    /\ script' = "cmod"
    /\ row' = CmodForFile(doc)
    /\ UNCHANGED doc

RunScf ==
    /\ script = "none"
    /\ script' = "scf"
    /\ row' = ScfForFile(doc)
    /\ UNCHANGED doc

RunSmad ==
    /\ script = "none"
    /\ script' = "smad"
    /\ row' = AnalyzeFile(doc)
    /\ UNCHANGED doc

RunDccmd ==
    /\ script = "none"
    /\ script' = "dccmd"
    /\ row' = DccmdRow(doc)
    /\ UNCHANGED doc

Next == RunCid \/ RunCmod \/ RunScf \/ RunSmad \/ RunDccmd

Spec == Init /\ [][Next]_vars

(***************************************************************************)
(* What the specification says of a document, stated without the scripts'  *)
(* own lookups.                                                            *)
(***************************************************************************)
\* The structural layer has the expected shape: an object whose decomposition
\* (when present) maps partition keys to lists of nodes that carry an id.
StructParses(d) ==
    /\ d.text = "ok"
    /\ d.top = "object"
    /\ d.L1.kind = "obj"
    /\ d.L1.decomposition.kind \in {"absent", "map"}
    /\ \A p \in DOMAIN d.L1.decomposition.parts :
          d.L1.decomposition.parts[p].kind = "list"

WellFormed(d) ==
    /\ StructParses(d)
    /\ \A p \in DOMAIN d.L1.decomposition.parts :
          \A i \in DOMAIN d.L1.decomposition.parts[p].nodes :
             d.L1.decomposition.parts[p].nodes[i].has_id
    /\ \A i \in DOMAIN d.L1.links : d.L1.links[i].weight.kind # "bad"

Partitions(d) == DOMAIN d.L1.decomposition.parts

\* Node x is declared under partition p.
Member(d, p, x) ==
    \E i \in DOMAIN d.L1.decomposition.parts[p].nodes :
        d.L1.decomposition.parts[p].nodes[i] = Node(x)

\* Some structural link leads from a node of p to a node of another partition q.
CrossEdge(d, p, q) ==
    /\ p # q
    /\ \E i \in DOMAIN d.L1.links :
          Member(d, p, d.L1.links[i].source) /\ Member(d, q, d.L1.links[i].target)

(***************************************************************************)
(* C1. For a well-formed document with N partitions cid_for_file yields    *)
(* total_pairs = N(N-1)/2, cyclic_pairs = the number of unordered pairs of *)
(* partitions with a cross-partition edge in both directions (weights      *)
(* ignored) and CiD = 1 - cyclic_pairs/total_pairs; for N <= 1 it yields   *)
(* CiD = 1 with cyclic_pairs = 0.  So cyclic_pairs <= total_pairs and CiD  *)
(* lies in [0, 1].                                                         *)
(***************************************************************************)
C1_CidFormula ==
    (script = "cid" /\ WellFormed(doc)) =>
        LET N     == Cardinality(Partitions(doc))
            total == (N * (N - 1)) \div 2
            recip == {pq \in Partitions(doc) \X Partitions(doc) :
                         CrossEdge(doc, pq[1], pq[2]) /\ CrossEdge(doc, pq[2], pq[1])}
            cyc   == Cardinality(recip) \div 2
        IN  /\ row.status = "ok"
            /\ row.partitions = N
            /\ row.total_pairs = total
            /\ row.cyclic_pairs = cyc
            /\ cyc <= total
            /\ N <= 1 => (row.CiD = Rat(1, 1) /\ row.cyclic_pairs = 0)
            /\ N > 1 => row.CiD.num * total = (total - cyc) * row.CiD.den
            /\ 0 <= row.CiD.num /\ row.CiD.num <= row.CiD.den

\* Scenario 1: three partitions, one reciprocal pair, CiD = 1 - 1/3.
C1_Witness ==
    /\ script = "cid"
    /\ WellFormed(doc)
    /\ row.status = "ok"
    /\ row.partitions = 3
    /\ row.cyclic_pairs = 1
    /\ row.total_pairs = 3
    /\ row.CiD = [num |-> 2, den |-> 3]

(***************************************************************************)
(* C2. For each use-case story the depth depths_for_file computes is the   *)
(* maximum, over the partitions the story touches, of the number of hops   *)
(* of the longest simple directed path from that partition in the          *)
(* service-level adjacency graph, found by exhaustive enumeration.         *)
(***************************************************************************)
\* The partitions a story touches through its business links.
TouchedBy(d, story) ==
    {p \in Partitions(d) :
        \E i \in DOMAIN d.L3.links :
            d.L3.links[i].source = story /\ Member(d, p, d.L3.links[i].target)}

\* The marked stories that touch a partition.
UseCaseStories(d) ==
    {d.L3.links[i].source :
        i \in {j \in DOMAIN d.L3.links :
                 /\ IsUseCase(d.L3.links[j].source)
                 /\ TouchedBy(d, d.L3.links[j].source) # {}}}

\* Every directed path from p that visits no partition twice.
SimplePaths(d, p) ==
    {path \in UNION {[1..m -> Partitions(d)] : m \in 1..Cardinality(Partitions(d))} :
        /\ path[1] = p
        /\ \A i, j \in DOMAIN path : i # j => path[i] # path[j]
        /\ \A i \in 1..(Len(path) - 1) : CrossEdge(d, path[i], path[i + 1])}

SetMax(S) == CHOOSE x \in S : \A y \in S : y <= x

LongestSimplePath(d, p) == SetMax({Len(path) - 1 : path \in SimplePaths(d, p)})

C2_DepthIsLongestSimplePath ==
    (script = "dccmd" /\ WellFormed(doc) /\ doc.L3.kind = "obj"
        /\ UseCaseStories(doc) # {}) =>
        /\ row.status = "ok"
        /\ row.ret.depths =
              ValuesOf([st \in UseCaseStories(doc) |->
                          SetMax({LongestSimplePath(doc, p) : p \in TouchedBy(doc, st)})],
                       UseCaseStories(doc))

\* C2 for documents none of whose partition keys is the empty string and whose
\* partitions are no more than dfs calls may nest.
C2_NonEmptyKeys ==
    ("" \notin Partitions(doc) /\ Cardinality(Partitions(doc)) <= RecursionLimit)
        => C2_DepthIsLongestSimplePath

(***************************************************************************)
(* C3. For every partition P touched by an edge with known endpoints,      *)
(* CF(P) = 2*internal(P) / (2*internal(P) + outgoing(P) + incoming(P))     *)
(* when outgoing(P) + incoming(P) > 0 and CF(P) = 1 otherwise, internal    *)
(* being a count and outgoing/incoming weight sums (missing weight = 1);   *)
(* CMod is the mean of CF over exactly those partitions.                   *)
(***************************************************************************)
\* Both endpoints of the link are declared nodes.
KnownEnds(d, e) ==
    /\ \E p \in Partitions(d) : Member(d, p, e.source)
    /\ \E p \in Partitions(d) : Member(d, p, e.target)

\* The partitions with at least one edge, internal or external.
TouchedParts(d) ==
    {p \in Partitions(d) :
        \E i \in DOMAIN d.L1.links :
            /\ KnownEnds(d, d.L1.links[i])
            /\ Member(d, p, d.L1.links[i].source) \/ Member(d, p, d.L1.links[i].target)}

InternalCount(d, p) ==
    Cardinality({i \in DOMAIN d.L1.links :
        Member(d, p, d.L1.links[i].source) /\ Member(d, p, d.L1.links[i].target)})

\* The weight of the links between p and the other partitions, both directions.
ExternalWeight(d, p) ==
    SumSeq([i \in DOMAIN d.L1.links |->
        IF /\ KnownEnds(d, d.L1.links[i])
           /\ Member(d, p, d.L1.links[i].source) # Member(d, p, d.L1.links[i].target)
        THEN (IF d.L1.links[i].weight.kind = "absent" THEN 1 ELSE d.L1.links[i].weight.val)
        ELSE 0])

CF(d, p) ==
    IF ExternalWeight(d, p) > 0
    THEN Rat(2 * InternalCount(d, p), 2 * InternalCount(d, p) + ExternalWeight(d, p))
    ELSE Rat(1, 1)

RECURSIVE SumCF(_, _)
SumCF(d, ps) ==
    IF ps = {} THEN Rat(0, 1)
    ELSE LET p == CHOOSE x \in ps : TRUE
         IN  RatAdd(CF(d, p), SumCF(d, ps \ {p}))

C3_CModIsMeanOfCF ==
    (script = "cmod" /\ WellFormed(doc) /\ TouchedParts(doc) # {}) =>
        /\ row.status = "ok"
        /\ row.CMod.num * SumCF(doc, TouchedParts(doc)).den * Cardinality(TouchedParts(doc))
              = SumCF(doc, TouchedParts(doc)).num * row.CMod.den

\* C3 for documents whose cross-partition links all carry a positive weight.
C3_PositiveWeights ==
    (\A i \in DOMAIN doc.L1.links :
        doc.L1.links[i].weight.kind = "num" => doc.L1.links[i].weight.val > 0)
    => C3_CModIsMeanOfCF

(***************************************************************************)
(* C4. cmod_for_file returns a value in [0, 1] or "not available", and     *)
(* "not available" exactly when no partition has any edge with known       *)
(* endpoints: a partition touched by an edge, a cross-partition edge of    *)
(* weight 0 included, is part of the average.                              *)
(***************************************************************************)
C4_NotAvailableIffNoEdges ==
    (script = "cmod" /\ WellFormed(doc)) =>
        /\ row.status \in {"ok", "NA"}
        /\ row.status = "ok" => (0 <= row.CMod.num /\ row.CMod.num <= row.CMod.den)
        /\ row.status = "NA" <=> TouchedParts(doc) = {}

(***************************************************************************)
(* C5. In scf_for_file E is the number of DISTINCT cross-partition         *)
(* directed edges: repeating a (source, target) link entry changes neither *)
(* E nor SCF.                                                              *)
(* As amended: E is the number of link ENTRIES whose endpoints scf_for_file*)
(* maps to two different partitions, each entry counted once and           *)
(* unweighted; repeating such an entry raises E by one and SCF does not    *)
(* rise, repeating any other entry changes nothing.                        *)
(***************************************************************************)
\* The document with link e added at the end of the structural links.
WithLink(d, e) == [d EXCEPT !.L1.links = Append(@, e)]

\* The entry leads from a node of one partition to a node of another, both
\* under non-empty keys.
Counted(d, e) ==
    \E p, q \in Partitions(d) \ {""} :
        p # q /\ Member(d, p, e.source) /\ Member(d, q, e.target)

C6_ScfFormula ==
    (script = "scf" /\ WellFormed(doc)) =>
        LET S == Cardinality(Partitions(doc))
            E == row.external_edges
            k == row.SCF
        IN  /\ row.status = "ok"
            /\ row.services = S
            /\ k = 0 <=> S + E = 0
            /\ S + E > 0 =>
                  /\ (2 * k - 1) * (2 * k - 1) * (S + E) <= 400000000 * S
                  /\ 400000000 * S < (2 * k + 1) * (2 * k + 1) * (S + E)
                  /\ 0 < k /\ k <= 10000
                  /\ k = 10000 <=> E = 0
                  /\ k # (20000 * E + (S + E)) \div (2 * (S + E))

\* Two services and one cross edge (the ratio of scenario 3): sqrt(4/6) = 0.8165.
C6_Witness ==
    /\ script = "scf"
    /\ WellFormed(doc)
    /\ row.status = "ok"
    /\ row.services = 2
    /\ row.external_edges = 1
    /\ row.SCF = 8165

(***************************************************************************)
(* C7. For a document whose structural layer parses, analyze_file is "not  *)
(* available" iff there are zero partitions; otherwise                     *)
(* SMAD = 1 - MAD/(MAD + 7), the sizes being the member counts of all      *)
(* partitions, med = median(sizes), MAD = median(|size - med|), and the    *)
(* median of an even-length list the mean of its two middle values.        *)
(***************************************************************************)
\* The k-th smallest of the values x[i], i in DOMAIN x.
Kth(x, k) ==
    CHOOSE v \in {x[i] : i \in DOMAIN x} :
        /\ Cardinality({i \in DOMAIN x : x[i] < v}) < k
        /\ k <= Cardinality({i \in DOMAIN x : x[i] <= v})

\* Twice the median of the integers x[i].
Median2(x) ==
    LET n == Cardinality(DOMAIN x)
    IN  IF n % 2 = 1 THEN 2 * Kth(x, (n + 1) \div 2)
        ELSE Kth(x, n \div 2) + Kth(x, n \div 2 + 1)

\* Four times the median absolute deviation of the integers x[i].
Mad4(x) == Median2([i \in DOMAIN x |-> Abs(2 * x[i] - Median2(x))])

PartSizes(d) == [p \in Partitions(d) |-> Len(d.L1.decomposition.parts[p].nodes)]

C7_SmadFormula ==
    (script = "smad" /\ StructParses(doc)) =>
        /\ row.status \in {"ok", "NA"}
        /\ row.status = "NA" <=> Partitions(doc) = {}
        /\ row.status = "ok" =>
              /\ row.services = Cardinality(Partitions(doc))
              /\ 2 * row.medSize.num = Median2(PartSizes(doc)) * row.medSize.den
              /\ 4 * row.MAD_raw.num = Mad4(PartSizes(doc)) * row.MAD_raw.den
              /\ row.SMAD.num * (Mad4(PartSizes(doc)) + 4 * SMAD_K)
                    = 4 * SMAD_K * row.SMAD.den

\* Four partitions of sizes 0, 1, 1, 3: med 1, MAD 1/2, SMAD 14/15.
C7_Witness ==
    /\ script = "smad"
    /\ StructParses(doc)
    /\ row.status = "ok"
    /\ row.services = 4
    /\ \E p \in Partitions(doc) : PartSizes(doc)[p] = 0
    /\ \E p \in Partitions(doc) : PartSizes(doc)[p] = 3
    /\ row.medSize = [num |-> 1, den |-> 1]
    /\ row.MAD_raw = [num |-> 1, den |-> 2]
    /\ row.SMAD = [num |-> 14, den |-> 15]

(***************************************************************************)
(* C8. No malformed document makes a per-file metric function raise: for   *)
(* a document that is unreadable, of the wrong shape, or lacks a layer or  *)
(* field, each of the five functions returns its "not available" result.   *)
(***************************************************************************)
C8_NeverRaises == row.status # "raise"

(***************************************************************************)
(* C9. Adding a structural link whose source or target node is absent from *)
(* the node->partition map, or missing, leaves CiD, cyclic_pairs, CMod,    *)
(* SCF, the external edge count and every story depth / DCCMD unchanged,   *)
(* and does not make the document "not available".                         *)
(***************************************************************************)
\* The endpoint is missing or names no declared node.
Unknown(d, x) == x = NULL \/ \A p \in Partitions(d) : ~Member(d, p, x)

\* The links with an unknown endpoint, of any weight.
UnknownLinks(d) ==
    {Link(st[1], st[2], w) :
        st \in {x \in {"a", "x", NULL} \X {"b", "x", NULL} :
                  Unknown(d, x[1]) \/ Unknown(d, x[2])},
        w \in {NoWeight, BadWeight}}

C9_UnknownLinkChangesNothing ==
    (script \in {"cid", "cmod", "scf", "dccmd"} /\ WellFormed(doc)) =>
        \A e \in UnknownLinks(doc) :
            row = (CASE script = "cid"  -> CidForFile(WithLink(doc, e))
                     [] script = "cmod" -> CmodForFile(WithLink(doc, e))
                     [] script = "scf"  -> ScfForFile(WithLink(doc, e))
                     [] OTHER           -> DccmdRow(WithLink(doc, e)))

\* A document with a cyclic pair, and links with an unknown endpoint to add.
C9_Witness ==
    /\ script = "cid"
    /\ WellFormed(doc)
    /\ row.status = "ok"
    /\ row.cyclic_pairs = 1
    /\ Link("a", "x", BadWeight) \in UnknownLinks(doc)
    /\ Link(NULL, "b", NoWeight) \in UnknownLinks(doc)
    /\ CidForFile(WithLink(doc, Link("a", "x", BadWeight))) = row

(***************************************************************************)
(* C10. CyclicIndependence, Modularity, CouplingFactor and the depth       *)
(* metric's adjacency classify every link of a document identically: a     *)
(* link is a cross-partition edge for one iff it is for each of the        *)
(* others, also with an empty-string partition key or null endpoints.      *)
(***************************************************************************)
C10_SameClassification ==
    WellFormed(doc) =>
        \A i \in DOMAIN doc.L1.links :
            LET decomp == GetDecomp(doc.L1)
                e == doc.L1.links[i]
            IN  /\ CidCross(decomp, e) <=> CmodCross(decomp, e)
                /\ CidCross(decomp, e) <=> ScfCross(decomp, e)
                /\ CidCross(decomp, e) <=> DccmdCross(decomp, e)

(***************************************************************************)
(* C11. When no business link carries a story label containing "USE CASE"  *)
(* (in any letter case) and targets a declared node, the row main appends  *)
(* has DCCMD "not available" and still shows the document's partition      *)
(* count, for every partition count, zero included, whenever the           *)
(* structural layer is readable.                                           *)
(***************************************************************************)
C11_CountReported ==
    (/\ script = "dccmd"
     /\ WellFormed(doc)
     /\ doc.L1.decomposition.kind = "map"
     /\ doc.L3.kind \in {"obj", "absent"}
     /\ UseCaseStories(doc) = {}) =>
        /\ row.status = "NA"
        /\ row.svc_shown
        /\ row.svc = Cardinality(Partitions(doc))

\* C11 for documents with a business layer and at least one partition.
C11_PositiveCount ==
    (Partitions(doc) # {} /\ doc.L3.kind = "obj") => C11_CountReported

(***************************************************************************)
(* C12. SMAD = 1 - MAD/(MAD + 7) and DCCMD = 1 - MAD/(MAD + 2): each is    *)
(* strictly decreasing in its non-negative MAD, is 1 exactly when MAD = 0, *)
(* and lies in (0, 1]; a document whose partitions all have the same size  *)
(* gets SMAD = 1 and one whose story depths are all equal gets DCCMD = 1.  *)
(***************************************************************************)
\* The MAD values to compare a row with: the half-integers up to 2 * MaxSize.
MadGrid == {Rat(n, 2) : n \in 0..(4 * MaxSize)}

\* score is 1 - mad/(mad + k), in (0, 1], 1 iff mad = 0, and every larger
\* (smaller) mad of the grid gives a strictly smaller (larger) score.
ScoreOf(mad, k, score) ==
    /\ mad.num >= 0
    /\ score.num * (mad.num + k * mad.den) = k * mad.den * score.den
    /\ 0 < score.num /\ score.num <= score.den
    /\ score = Rat(1, 1) <=> mad.num = 0
    /\ \A m \in MadGrid :
          LET other == Dispersion(m, k)
          IN  /\ mad.num * m.den < m.num * mad.den
                    => other.num * score.den < score.num * other.den
              /\ m.num * mad.den < mad.num * m.den
                    => score.num * other.den < other.num * score.den

C12_ScoresDecreaseInMad ==
    /\ (script = "smad" /\ row.status = "ok") =>
          ScoreOf(row.MAD_raw, SMAD_K, row.SMAD)
    /\ (script = "smad" /\ StructParses(doc) /\ Partitions(doc) # {}
          /\ \A p, q \in Partitions(doc) : PartSizes(doc)[p] = PartSizes(doc)[q]) =>
          row.status = "ok" /\ row.SMAD = Rat(1, 1)
    /\ (script = "dccmd" /\ row.status = "ok") =>
          /\ ScoreOf(row.MADraw, DCCMD_K, row.DCCMD)
          /\ (\A i, j \in DOMAIN row.ret.depths : row.ret.depths[i] = row.ret.depths[j])
                => row.DCCMD = Rat(1, 1)

\* Two stories of depths 0 and 1: MAD 1/2, DCCMD 4/5, between the scores of
\* MAD 0 and MAD 1.
C12_Witness ==
    /\ script = "dccmd"
    /\ row.status = "ok"
    /\ row.stories = 2
    /\ row.MADraw = [num |-> 1, den |-> 2]
    /\ row.DCCMD = [num |-> 4, den |-> 5]
    /\ Dispersion(Rat(1, 1), DCCMD_K) = [num |-> 2, den |-> 3]
    /\ Dispersion(Rat(0, 1), DCCMD_K) = [num |-> 1, den |-> 1]

(***************************************************************************)
(* C13. For every finite service adjacency graph, cyclic ones included,    *)
(* the depth-first search of longest_path terminates with a depth in       *)
(* 0..N-1 for N partitions: every recursive call adds one partition not    *)
(* yet on the path to the visited set, no partition is revisited, calls    *)
(* nest at most N-1 deep below the root, and the memo cache is made anew   *)
(* for each longest_path call.                                             *)
(***************************************************************************)
\* The cache lru_cache holds when longest_path(start, adj) returns.
SearchCache(start, adj) == Dfs(adj, start, {start}, EmptyCache).cache

\* What the claim says of the search from partition s of document d.
SearchBounded(d, s) ==
    LET adj == Adj(GetDecomp(d.L1), d.L1.links)
        N   == Cardinality(Partitions(d))
    IN  /\ ~Overflows(s, adj)
        /\ LongestPath(s, adj) \in 0..(N - 1)
        /\ <<s, {s}>> \in DOMAIN SearchCache(s, adj)
        /\ \A key \in DOMAIN SearchCache(s, adj) :
              /\ key[1] \in key[2] /\ s \in key[2]
              /\ key[2] \subseteq Partitions(d)
              /\ Cardinality(key[2]) - 1 <= N - 1
              /\ SearchCache(s, adj)[key] \in 0..(N - Cardinality(key[2]))
              /\ key[2] # {s} =>
                    \E prev \in key[2] \ {key[1]} :
                        /\ key[1] \in adj[prev]
                        /\ <<prev, key[2] \ {key[1]}>> \in DOMAIN SearchCache(s, adj)

C13_SearchTerminates ==
    (/\ script = "dccmd"
     /\ WellFormed(doc)
     /\ doc.L1.decomposition.kind = "map"
     /\ doc.L3.kind = "obj"
     /\ "" \notin Partitions(doc)) =>
        /\ row.status \in {"ok", "NA"}
        /\ \A st \in UseCaseStories(doc) :
              \A s \in TouchedBy(doc, st) : SearchBounded(doc, s)

\* C13 for documents whose partitions are no more than dfs calls may nest.
C13_WithinLimit ==
    (Cardinality(Partitions(doc)) <= RecursionLimit) => C13_SearchTerminates

(***************************************************************************)
(* C14. depths_for_file yields exactly one depth per distinct story label  *)
(* that has a use-case edge targeting a node of a partition; a marked      *)
(* story whose targets are all unknown nodes yields no entry (not a depth  *)
(* of 0), so the story count, the median and the MAD of the row are taken  *)
(* over the stories that touch a partition, and over no others.            *)
(***************************************************************************)
\* The depth of each marked story that touches a partition.
StoryDepths(d) ==
    [st \in UseCaseStories(d) |->
        SetMax({LongestSimplePath(d, p) : p \in TouchedBy(d, st)})]

C14_OneDepthPerTouchingStory ==
    (/\ script = "dccmd"
     /\ WellFormed(doc)
     /\ doc.L1.decomposition.kind = "map"
     /\ doc.L3.kind = "obj") =>
        /\ row.status \in {"ok", "NA"}
        /\ row.status = "NA" <=> UseCaseStories(doc) = {}
        /\ row.status = "ok" =>
              /\ row.stories = Cardinality(UseCaseStories(doc))
              /\ Len(row.ret.depths) = Cardinality(UseCaseStories(doc))
              /\ 2 * row.medDepth.num = Median2(StoryDepths(doc)) * row.medDepth.den
              /\ 4 * row.MADraw.num = Mad4(StoryDepths(doc)) * row.MADraw.den

\* C14 for documents none of whose partition keys is the empty string and whose
\* partitions are no more than dfs calls may nest.
C14_NonEmptyKeys ==
    ("" \notin Partitions(doc) /\ Cardinality(Partitions(doc)) <= RecursionLimit)
        => C14_OneDepthPerTouchingStory

=============================================================================
